---------------------------- MODULE Spec2Model ----------------------------
(***************************************************************************)
(* Model of the Telegram -> Discord link relay.                            *)
(*                                                                         *)
(*   main.py         on_ready (first-run guard, initial fetch, poll loop), *)
(*                   get_tg_results (connect, list, enrich, sort,          *)
(*                   disconnect), the globals last_processed_id and        *)
(*                   is_first_run                                          *)
(*   discord_bot.py  send_telegram_embeds (per-message try/except)         *)
(*   tl_fetcher.py   get_context_messages                                  *)
(*                                                                         *)
(* A message id is its index in chat.  A message carries the number of     *)
(* URLs extract_all_urls finds in it, its date and the length of its text. *)
(***************************************************************************)
EXTENDS Integers, Sequences, FiniteSets, TLC

\* ------------------------------------------------------------ bounds
\* Largest number of messages the source chat ever holds.
MaxMsgs == 3
\* Number of times Discord fires the ready event.
MaxReady == 2
\* Largest timestamp of a message.
MaxDate == 2
\* TG_LIMIT (main.py:37, default 200), scaled to the chat size.
limit == 2
\* get_context_messages called on its own: largest chat, largest before and
\* after counts.
MaxCtxMsgs == 5
MaxBefore == 2
MaxAfter == 2

\* ------------------------------------------------------- program constants
\* Python's None, the initial value of last_processed_id.
None == -1
\* get_context_messages(chat, m.id, before=2, after=5)
before == 2
after == 5
\* `len(text) > 6` in get_context_messages.
MinTextLen == 6

Tasks == 1..MaxReady
Dates == 1..MaxDate
\* Text lengths: empty, and on both sides of the context filter's threshold.
TextLens == {0, MinTextLen, MinTextLen + 1}
\* URLs per message as counted by extract_all_urls.
UrlCounts == {0, 1}
RawMessage == [urls : UrlCounts, date : Dates, tlen : TextLens]
\* The messages posted while the poller runs: with or without a URL, of any
\* date, their text long enough to serve as context.
Posted == {m \in RawMessage : m.tlen > MinTextLen}

VARIABLES
    chat,               \* the source chat: sequence of RawMessage, id = index
    is_first_run,       \* main.py global
    last_processed_id,  \* main.py global: the sync cursor
    pc,                 \* per on_ready invocation: where its coroutine stands
    min_id,             \* per invocation: argument of the running get_tg_results
    messages,           \* per invocation: ids returned by the listing call
    results,            \* per invocation: the enriched batch
    idx,                \* per invocation: position of send_telegram_embeds' loop
    outcome,            \* per invocation: how the current tick's pipeline went
    failed,             \* per invocation: pivot whose sender/context lookup raised
    connected,          \* per invocation: the tick's Telegram client is connected
    readyCount,         \* number of ready events fired so far
    sink,               \* units the Discord channel received from the running send_telegram_embeds
    handed,             \* id -> number of batches handed to send_telegram_embeds holding it
    undelivered,        \* ids of the running batch whose delivery raised or was skipped
    attempted,          \* ids of the running batch whose loop iteration has run
    call                \* a helper called on its own: its arguments and its result

vars == <<chat, is_first_run, last_processed_id, pc, min_id, messages, results,
          idx, outcome, failed, connected, readyCount, sink, handed, undelivered,
          attempted, call>>

\* The state of the relay itself.
relay == <<chat, is_first_run, last_processed_id, pc, min_id, messages, results,
           idx, outcome, failed, connected, readyCount, sink, handed, undelivered,
           attempted>>

\* ------------------------------------------------------------ helpers
Min(a, b) == IF a < b THEN a ELSE b

Take(s, k) == SubSeq(s, 1, Min(k, Len(s)))

Reverse(s) == [i \in 1..Len(s) |-> s[Len(s) + 1 - i]]

RECURSIVE MaxOf(_)
MaxOf(s) == IF Len(s) = 1 THEN s[1]
            ELSE LET m == MaxOf(Tail(s)) IN IF s[1] > m THEN s[1] ELSE m

Ids(res) == [i \in 1..Len(res) |-> res[i].id]

\* Python truthiness of an Optional[int]: None and 0 are false.
Truthy(v) == v # None /\ v # 0

\* Telethon's client.get_messages(chat, limit, min_id, offset_id, reverse):
\* ids strictly above min_id (0: no lower bound) and strictly below offset_id
\* (0: no upper bound); newest first unless reverse; at most lim of them.
ListMessages(ch, lim, minId, offsetId, reverse) ==
    LET n      == Len(ch)
        InRange(i) == i > minId /\ (offsetId = 0 \/ i < offsetId)
        asc    == SelectSeq([i \in 1..n |-> i], InRange)
    IN  IF reverse THEN Take(asc, lim) ELSE Take(Reverse(asc), lim)

\* The listing call of get_tg_results: `if min_id:` picks the bounded call.
FetchMessages_MaxId(ch, minId) ==
    IF Truthy(minId) THEN ListMessages(ch, limit, 0, minId, FALSE)
    ELSE ListMessages(ch, limit, 0, 0, FALSE)
FetchMessages_Inclusive(ch, minId) ==
    IF Truthy(minId) THEN ListMessages(ch, limit, minId - 1, 0, FALSE)
    ELSE ListMessages(ch, limit, 0, 0, FALSE)
FetchMessages(ch, minId) ==
    IF Truthy(minId) THEN ListMessages(ch, limit, minId, 0, FALSE)
    ELSE ListMessages(ch, limit, 0, 0, FALSE)

\* `m.id != message_id` in the loops of get_context_messages.
NotPivot_Any(i, message_id) == TRUE
NotPivot(i, message_id) == i # message_id

\* `text and len(text) > 6` in the loops of get_context_messages.
LongEnough_Inclusive(len) == len >= MinTextLen
LongEnough(len) == len > MinTextLen

\* One loop of get_context_messages over the listed ids: a message is appended
\* while fewer than n are kept, if it is not the pivot and its text is long.
RECURSIVE ContextLoop(_, _, _, _, _)
ContextLoop(ch, listed, message_id, n, kept) ==
    IF listed = <<>> THEN kept
    ELSE LET m == Head(listed)
         IN  IF NotPivot(m, message_id) /\ Len(kept) < n /\ LongEnough(ch[m].tlen)
             THEN ContextLoop(ch, Tail(listed), message_id, n, Append(kept, m))
             ELSE ContextLoop(ch, Tail(listed), message_id, n, kept)

\* context['before'].reverse()
OldestFirst_Kept(s) == s
OldestFirst(s) == Reverse(s)

\* get_context_messages: ids of the before and the after list.
get_context_messages(ch, message_id, nBefore, nAfter) ==
    LET before_messages == ListMessages(ch, nBefore * 2, 0, message_id, FALSE)
        after_messages  == ListMessages(ch, (nAfter * 2) + 1, message_id - 1, 0, TRUE)
    IN  [before |-> OldestFirst(ContextLoop(ch, before_messages, message_id, nBefore, <<>>)),
         after  |-> ContextLoop(ch, after_messages, message_id, nAfter, <<>>)]

\* `if urls:` in get_tg_results.
HasUrls_Any(m) == TRUE
HasUrls(m) == m.urls > 0

\* message_dict of get_tg_results.
MessageDict(ch, i) ==
    LET context == get_context_messages(ch, i, before, after)
    IN  [id |-> i, date |-> ch[i].date, urls |-> ch[i].urls,
         context_before |-> context.before, context_after |-> context.after]

\* The loop of get_tg_results over the fetched ids, in fetch order.
Collect(ch, msgs) ==
    LET Keep(i) == HasUrls(ch[i])
        kept == SelectSeq(msgs, Keep)
    IN  [k \in 1..Len(kept) |-> MessageDict(ch, kept[k])]

\* results.sort(key=lambda x: x['date']): stable, ascending.
RECURSIVE SortByDate_ById(_)
SortByDate_ById(s) ==
    IF s = <<>> THEN <<>>
    ELSE LET x    == s[Len(s)]
             rest == SortByDate_ById(SubSeq(s, 1, Len(s) - 1))
             NotAfter(y) == y.id <= x.id
             After(y) == y.id > x.id
         IN  SelectSeq(rest, NotAfter) \o <<x>> \o SelectSeq(rest, After)
RECURSIVE SortByDate(_)
SortByDate(s) ==
    IF s = <<>> THEN <<>>
    ELSE LET x    == s[Len(s)]
             rest == SortByDate(SubSeq(s, 1, Len(s) - 1))
             NotAfter(y) == y.date <= x.date
             After(y) == y.date > x.date
         IN  SelectSeq(rest, NotAfter) \o <<x>> \o SelectSeq(rest, After)

\* `except Exception: ... return []`: what get_tg_results returns when a step
\* raised after `partial` had been collected.
ResultsOnError_Partial(partial) == partial
ResultsOnError(partial) == <<>>

\* The cursor after a tick: `if results: ... last_processed_id = max(ids)`.
CursorAfterTick_Reset(cur, res) == IF res # <<>> THEN MaxOf(Ids(res)) ELSE None
CursorAfterTick_First(cur, res) == IF res # <<>> THEN res[1].id ELSE cur
CursorAfterTick(cur, res) == IF res # <<>> THEN MaxOf(Ids(res)) ELSE cur

\* The argument of the loop's get_tg_results(min_id=last_processed_id).
NextMinId_Unset(cur) == None
NextMinId(cur) == cur

\* `is_first_run = False` under `global is_first_run`.
ClearFirstRun_Local(flag) == flag
ClearFirstRun(flag) == FALSE

\* send_telegram_embeds: the try/except sits inside the for loop, so after an
\* exception at message i of n the loop goes on with message i + 1.
NextIndexOnError_Abort(i, n) == n + 1
NextIndexOnError(i, n) == i + 1

\* The sink calls send_telegram_embeds makes for one message, in order.
Units_UrlsBeforeBody(msg) ==
    <<<<"divider", 0>>>>
    \o (IF msg.context_before # <<>> THEN <<<<"before", 0>>>> ELSE <<>>)
    \o [u \in 1..msg.urls |-> <<"url", u>>]
    \o <<<<"body", 0>>>>
    \o (IF msg.context_after # <<>> THEN <<<<"after", 0>>>> ELSE <<>>)
    \o <<<<"divider_end", 0>>>>

Units(msg) ==
    <<<<"divider", 0>>>>
    \o (IF msg.context_before # <<>> THEN <<<<"before", 0>>>> ELSE <<>>)
    \o <<<<"body", 0>>>>
    \o [u \in 1..msg.urls |-> <<"url", u>>]
    \o (IF msg.context_after # <<>> THEN <<<<"after", 0>>>> ELSE <<>>)
    \o <<<<"divider_end", 0>>>>

\* What the sink records of a send: the message, the kind of unit, and for a
\* URL its position in msg['urls'].
Tag(id, units) == [u \in 1..Len(units) |-> <<id, units[u][1], units[u][2]>>]

\* ------------------------------------------------------------ initial state
RelayInit ==
    /\ chat = <<>>
    /\ is_first_run = TRUE
    /\ last_processed_id = None
    /\ pc = [t \in Tasks |-> "idle"]
    /\ min_id = [t \in Tasks |-> None]
    /\ messages = [t \in Tasks |-> <<>>]
    /\ results = [t \in Tasks |-> <<>>]
    /\ idx = [t \in Tasks |-> 1]
    /\ outcome = [t \in Tasks |-> "none"]
    /\ failed = [t \in Tasks |-> 0]
    /\ connected = [t \in Tasks |-> FALSE]
    /\ readyCount = 0
    /\ sink = <<>>
    /\ handed = [i \in 1..MaxMsgs |-> 0]
    /\ undelivered = {}
    /\ attempted = {}

NoCall == [op |-> "none"]

Init == RelayInit /\ call = NoCall

\* ------------------------------------------------------------ environment
\* Somebody posts a message in the source chat.
NewMessage ==
    /\ Len(chat) < MaxMsgs
    /\ \E m \in Posted : chat' = Append(chat, m)
    /\ UNCHANGED <<is_first_run, last_processed_id, pc, min_id, messages, results,
                   idx, outcome, failed, connected, readyCount, sink, handed,
                   undelivered, attempted,
                   call>>

\* ------------------------------------------------------------ on_ready
\* Begin a call of get_tg_results(min_id=arg): fresh locals.
BeginFetch(t, arg) ==
    /\ min_id' = [min_id EXCEPT ![t] = arg]
    /\ messages' = [messages EXCEPT ![t] = <<>>]
    /\ results' = [results EXCEPT ![t] = <<>>]
    /\ idx' = [idx EXCEPT ![t] = 1]
    /\ outcome' = [outcome EXCEPT ![t] = "none"]
    /\ failed' = [failed EXCEPT ![t] = 0]

\* The ready event fires (again): on_ready up to its first suspension inside
\* get_tg_results.  The online announcement is sent when the channel is cached;
\* if that send raises, the handler ends there.
on_ready(t) ==
    /\ pc[t] = "idle"
    /\ t = readyCount + 1
    /\ readyCount' = t
    /\ IF is_first_run
       THEN /\ is_first_run' = ClearFirstRun(is_first_run)
            /\ \E channel \in BOOLEAN, sent \in BOOLEAN :
                 IF channel /\ ~sent
                 THEN /\ pc' = [pc EXCEPT ![t] = "crashed"]
                      /\ outcome' = [outcome EXCEPT ![t] = "announce_fail"]
                      /\ UNCHANGED <<min_id, messages, results, idx, failed>>
                 ELSE /\ pc' = [pc EXCEPT ![t] = "connect"]
                      /\ BeginFetch(t, None)
       ELSE /\ pc' = [pc EXCEPT ![t] = "skipped"]
            /\ UNCHANGED <<is_first_run, min_id, messages, results, idx, outcome,
                           failed>>
    /\ UNCHANGED <<chat, last_processed_id, connected, sink, handed, undelivered,
                   attempted,
                   call>>

\* get_tg_results: where it goes on when its try block is left with outcome r.
\* The `finally` clause runs however the block is left.
AfterTry_NoFinally(r) == IF r = "ok" THEN "disconnect" ELSE "sleep"
AfterTry(r) == "disconnect"

\* get_tg_results: `await info_bot.connect()`, outside the try block.
Connect(t) ==
    /\ pc[t] = "connect"
    /\ \E ok \in BOOLEAN :
         IF ok
         THEN /\ pc' = [pc EXCEPT ![t] = "fetch"]
              /\ connected' = [connected EXCEPT ![t] = TRUE]
              /\ UNCHANGED outcome
         ELSE /\ pc' = [pc EXCEPT ![t] = "crashed"]
              /\ outcome' = [outcome EXCEPT ![t] = "connect_fail"]
              /\ UNCHANGED connected
    /\ UNCHANGED <<chat, is_first_run, last_processed_id, min_id, messages, results,
                   idx, failed, readyCount, sink, handed, undelivered, attempted,
                   call>>

\* get_tg_results: get_entity, then the listing call; either may raise.
Fetch(t) ==
    /\ pc[t] = "fetch"
    /\ \E r \in {"ok", "entity_fail", "list_fail"} :
         IF r = "ok"
         THEN /\ messages' = [messages EXCEPT ![t] = FetchMessages(chat, min_id[t])]
              /\ pc' = [pc EXCEPT ![t] = "enrich"]
              /\ UNCHANGED <<outcome, results>>
         ELSE /\ outcome' = [outcome EXCEPT ![t] = r]
              /\ results' = [results EXCEPT ![t] = ResultsOnError(<<>>)]
              /\ pc' = [pc EXCEPT ![t] = AfterTry(r)]
              /\ UNCHANGED messages
    /\ UNCHANGED <<chat, is_first_run, last_processed_id, min_id, idx, failed,
                   connected, readyCount, sink, handed, undelivered, attempted,
                   call>>

\* get_tg_results: the loop over the fetched messages and the sort.  For a
\* message with URLs the sender lookup or the context fetch may raise.
Enrich(t) ==
    /\ pc[t] = "enrich"
    /\ LET all == Collect(chat, messages[t])
       IN  \/ /\ results' = [results EXCEPT ![t] = SortByDate(all)]
              /\ outcome' = [outcome EXCEPT ![t] = "ok"]
              /\ UNCHANGED failed
           \/ \E k \in 1..Len(all), r \in {"sender_fail", "ctx_fail"} :
                /\ results' = [results EXCEPT ![t] = ResultsOnError(SubSeq(all, 1, k - 1))]
                /\ outcome' = [outcome EXCEPT ![t] = r]
                /\ failed' = [failed EXCEPT ![t] = all[k].id]
    /\ pc' = [pc EXCEPT ![t] = AfterTry(outcome'[t])]
    /\ UNCHANGED <<chat, is_first_run, last_processed_id, min_id, messages, idx,
                   connected, readyCount, sink, handed, undelivered, attempted,
                   call>>

\* get_tg_results: `finally: await client.disconnect()`, then back in on_ready
\* `if results:` hands the batch to send_telegram_embeds or goes to sleep.
Disconnect(t) ==
    /\ pc[t] = "disconnect"
    /\ \E ok \in BOOLEAN :
         IF ~ok
         THEN /\ pc' = [pc EXCEPT ![t] = "crashed"]
              /\ outcome' = [outcome EXCEPT ![t] = "disconnect_fail"]
              /\ UNCHANGED <<connected, handed, last_processed_id>>
         ELSE /\ connected' = [connected EXCEPT ![t] = FALSE]
              /\ UNCHANGED outcome
              /\ IF results[t] # <<>>
                 THEN /\ pc' = [pc EXCEPT ![t] = "deliver"]
                      /\ handed' = [i \in DOMAIN handed |->
                            IF \E k \in 1..Len(results[t]) : results[t][k].id = i
                            THEN handed[i] + 1 ELSE handed[i]]
                      /\ UNCHANGED last_processed_id
                 ELSE /\ pc' = [pc EXCEPT ![t] = "sleep"]
                      /\ last_processed_id' = CursorAfterTick(last_processed_id, results[t])
                      /\ UNCHANGED handed
    /\ UNCHANGED <<chat, is_first_run, min_id, messages, results, idx, failed,
                   readyCount, sink, undelivered, attempted,
                   call>>

\* send_telegram_embeds: one iteration of `for msg in results`.
Deliver(t) ==
    /\ pc[t] = "deliver"
    /\ LET n     == Len(results[t])
           msg   == results[t][idx[t]]
           units == Units(msg)
       IN  \E channel \in BOOLEAN, k \in 0..Len(units) :
             /\ attempted' = attempted \cup {msg.id}
             /\ IF ~channel
                THEN \* `if not channel: continue`
                     /\ k = 0
                     /\ idx' = [idx EXCEPT ![t] = idx[t] + 1]
                     /\ undelivered' = undelivered \cup {msg.id}
                     /\ UNCHANGED sink
                ELSE IF k < Len(units)
                THEN \* the send of unit k + 1 raised
                     /\ sink' = sink \o Tag(msg.id, SubSeq(units, 1, k))
                     /\ idx' = [idx EXCEPT ![t] = NextIndexOnError(idx[t], n)]
                     /\ undelivered' = undelivered \cup {msg.id}
                ELSE /\ sink' = sink \o Tag(msg.id, units)
                     /\ idx' = [idx EXCEPT ![t] = idx[t] + 1]
                     /\ UNCHANGED undelivered
             /\ pc' = [pc EXCEPT ![t] = IF idx'[t] > n THEN "advance" ELSE "deliver"]
    /\ UNCHANGED <<chat, is_first_run, last_processed_id, min_id, messages, results,
                   outcome, failed, connected, readyCount, handed,
                   call>>

\* on_ready: send_telegram_embeds has returned;
\* `last_processed_id = max(msg['id'] for msg in results)`.
AdvanceCursor(t) ==
    /\ pc[t] = "advance"
    /\ last_processed_id' = CursorAfterTick(last_processed_id, results[t])
    /\ pc' = [pc EXCEPT ![t] = "sleep"]
    /\ idx' = [idx EXCEPT ![t] = 1]
    /\ sink' = <<>>
    /\ undelivered' = {}
    /\ attempted' = {}
    /\ UNCHANGED <<chat, is_first_run, min_id, messages, results, outcome,
                   failed, connected, readyCount, handed,
                   call>>

\* on_ready: asyncio.sleep(60) returns and the loop calls
\* get_tg_results(min_id=last_processed_id).
StartTick(t) ==
    /\ pc[t] = "sleep"
    /\ pc' = [pc EXCEPT ![t] = "connect"]
    /\ BeginFetch(t, NextMinId(last_processed_id))
    /\ UNCHANGED <<chat, is_first_run, last_processed_id, connected, readyCount,
                   sink, handed, undelivered, attempted,
                   call>>

Next ==
    \/ NewMessage
    \/ \E t \in Tasks : on_ready(t)
    \/ \E t \in Tasks : Connect(t)
    \/ \E t \in Tasks : Fetch(t)
    \/ \E t \in Tasks : Enrich(t)
    \/ \E t \in Tasks : Disconnect(t)
    \/ \E t \in Tasks : Deliver(t)
    \/ \E t \in Tasks : AdvanceCursor(t)
    \/ \E t \in Tasks : StartTick(t)

Spec == Init /\ [][Next]_vars

TypeOK ==
    /\ chat \in Seq(RawMessage) /\ Len(chat) <= MaxMsgs
    /\ is_first_run \in BOOLEAN
    /\ last_processed_id \in {None} \cup (1..MaxMsgs)


\* ------------------------------------------------------------ claims
\* Ids of the URL-bearing messages among those the tick of t fetched.
UrlIdsFetched(t) ==
    LET Bearing(i) == chat[i].urls > 0 IN SelectSeq(messages[t], Bearing)

IdSet(res) == {res[k].id : k \in 1..Len(res)}

\* C1 (as claimed): after a tick whose listing returned at least one message
\* the cursor is the maximum id among ALL messages fetched in that tick.
C1_CursorIsMaxOfAllFetched ==
    \A t \in Tasks :
        (pc[t] = "sleep" /\ outcome[t] = "ok" /\ messages[t] # <<>>)
            => last_processed_id = MaxOf(messages[t])

\* C1 (amended): after a tick that completed without error and fetched at least
\* one URL-bearing message the cursor is the maximum id among the URL-bearing
\* messages fetched in that tick; after any other tick the cursor has the value
\* it had when the tick began.
C1_CursorIsMaxOfUrlBearing ==
    \A t \in Tasks :
        pc[t] = "sleep" =>
            last_processed_id =
                IF outcome[t] = "ok" /\ UrlIdsFetched(t) # <<>>
                THEN MaxOf(UrlIdsFetched(t))
                ELSE min_id[t]

\* C1 witness: a tick has advanced the cursor to a URL-bearing message although
\* it also fetched a newer message without URL.
C1_Witness ==
    \E t \in Tasks :
        /\ pc[t] = "sleep" /\ outcome[t] = "ok" /\ results[t] # <<>>
        /\ last_processed_id # min_id[t]
        /\ MaxOf(messages[t]) > last_processed_id

\* C2: the cursor never decreases and, once set, never returns to UNSET.
C2_CursorNeverDecreases ==
    [][/\ last_processed_id' >= last_processed_id
       /\ (last_processed_id # None => last_processed_id' # None)]_vars

\* C2 witness: a tick that began with the cursor set has advanced it further.
C2_Witness ==
    \E t \in Tasks :
        pc[t] = "sleep" /\ min_id[t] # None /\ last_processed_id > min_id[t]

\* C3 (as claimed): from UNSET the cursor is ACTIVE after the first tick whose
\* fetch completed without error and returned at least one message.
C3_ActiveAfterNonEmptyFetch ==
    \A t \in Tasks :
        (pc[t] = "sleep" /\ min_id[t] = None /\ outcome[t] = "ok"
            /\ messages[t] # <<>>)
            => last_processed_id # None

\* C3 (amended): from UNSET the cursor is ACTIVE after a tick exactly when the
\* tick completed without error and fetched at least one URL-bearing message.
C3_ActiveIffUrlBearingFetched ==
    \A t \in Tasks :
        (pc[t] = "sleep" /\ min_id[t] = None) =>
            (last_processed_id # None
                <=> (outcome[t] = "ok"
                     /\ \E k \in 1..Len(messages[t]) : chat[messages[t][k]].urls > 0))

\* C3 witness: a tick that began UNSET fetched messages with and without URL
\* and left the cursor ACTIVE.
C3_Witness ==
    \E t \in Tasks :
        /\ pc[t] = "sleep" /\ min_id[t] = None /\ last_processed_id # None
        /\ \E k \in 1..Len(messages[t]) : chat[messages[t][k]].urls = 0

\* C4: a tick whose listing returns no message leaves the cursor unchanged and
\* the next tick fetches with the same lower bound; a fetch with the cursor
\* UNSET is unbounded: it returns the newest `limit` messages of the chat.
C4_EmptyFetchKeepsCursor ==
    [][\A t \in Tasks :
        /\ (pc[t] = "sleep" /\ outcome[t] = "ok" /\ messages[t] = <<>>)
            => /\ last_processed_id = min_id[t]
               /\ (pc'[t] = "connect" => min_id'[t] = min_id[t])
        /\ (pc[t] = "fetch" /\ min_id[t] = None /\ pc'[t] = "enrich")
            => messages'[t] = Take(Reverse([i \in 1..Len(chat) |-> i]), limit)]_vars

\* C4 witness: a tick with the cursor UNSET has run on an empty chat.
C4_Witness ==
    \E t \in Tasks :
        /\ pc[t] = "sleep" /\ outcome[t] = "ok" /\ messages[t] = <<>>
        /\ min_id[t] = None /\ chat = <<>>

\* C5: when the listing call raises, the tick's batch is empty, nothing is
\* handed to send_telegram_embeds, the cursor keeps the value it had when the
\* tick began, and the next tick fetches with the same lower bound.
C5_ListFailureIsEmptyTick ==
    [][\A t \in Tasks :
        outcome[t] = "list_fail" =>
            /\ results[t] = <<>>
            /\ pc[t] \in {"disconnect", "sleep", "crashed"}
            /\ last_processed_id = min_id[t]
            /\ handed' = handed
            /\ (pc[t] = "sleep" /\ pc'[t] = "connect" => min_id'[t] = min_id[t])]_vars

\* C5 witness: the listing call has failed in a tick that began with the
\* cursor set, and the tick is over.
C5_Witness ==
    \E t \in Tasks :
        pc[t] = "sleep" /\ outcome[t] = "list_fail" /\ min_id[t] # None

\* C6 (as claimed): when the context fetch raises for a pivot, the pivot is
\* still in the tick's batch, with an empty context window.
C6_PivotForwardedWithEmptyContext ==
    \A t \in Tasks :
        (outcome[t] = "ctx_fail" /\ pc[t] = "disconnect") =>
            \E k \in 1..Len(results[t]) :
                /\ results[t][k].id = failed[t]
                /\ results[t][k].context_before = <<>>
                /\ results[t][k].context_after = <<>>

\* C6 (amended): when the context fetch raises for a pivot, the tick's batch is
\* empty: neither the pivot nor any other message fetched in the tick is handed
\* to send_telegram_embeds in that tick, and the cursor keeps the value it had
\* when the tick began.
C6_ContextFailureEmptiesBatch ==
    \A t \in Tasks :
        outcome[t] = "ctx_fail" =>
            /\ results[t] = <<>>
            /\ pc[t] \in {"disconnect", "sleep", "crashed"}
            /\ last_processed_id = min_id[t]
            /\ \A k \in 1..Len(messages[t]) : handed[messages[t][k]] = 0

\* C6 witness: the context fetch has failed for one of two URL-bearing
\* messages fetched in the same tick, and the tick is over.
C6_Witness ==
    \E t \in Tasks :
        /\ pc[t] = "sleep" /\ outcome[t] = "ctx_fail"
        /\ Len(UrlIdsFetched(t)) > 1

\* C7: when send_telegram_embeds returns, every message of the batch has been
\* attempted, whether or not an earlier one failed, and the cursor is then set
\* to the maximum id of the batch.
C7_SendFailureKeepsBatchAndCursor ==
    [][\A t \in Tasks :
        pc[t] = "advance" =>
            /\ attempted = IdSet(results[t])
            /\ (pc'[t] = "sleep" => last_processed_id' = MaxOf(Ids(results[t])))]_vars

\* C7 witness: a batch is through in which a delivery failed and a later
\* message was delivered in full.
C7_Witness ==
    \E t \in Tasks :
        /\ pc[t] = "advance"
        /\ \E j, k \in 1..Len(results[t]) :
            /\ j < k
            /\ results[t][j].id \in undelivered
            /\ results[t][k].id \notin undelivered
            /\ \E u \in 1..Len(sink) : sink[u] = <<results[t][k].id, "divider_end", 0>>

\* C8: no message is handed to send_telegram_embeds in more than one batch.
C8_AtMostOnce ==
    \A i \in 1..MaxMsgs : handed[i] <= 1

\* C8 witness: a second batch is through, one of its deliveries failed, and
\* the message the cursor stood on when the tick began was handed once.
C8_Witness ==
    \E t \in Tasks :
        /\ pc[t] = "advance" /\ min_id[t] # None
        /\ handed[min_id[t]] = 1
        /\ undelivered # {}

\* C9: at most one invocation of on_ready ever gets past the first-run guard,
\* so at most one tick is in progress, and the cursor a running fetch was given
\* is still the cursor: nothing advanced it in between.
C9_TicksNeverOverlap ==
    /\ Cardinality({t \in Tasks : pc[t] \notin {"idle", "skipped"}}) <= 1
    /\ \A t \in Tasks :
        pc[t] \in {"connect", "fetch", "enrich", "disconnect", "deliver", "advance"}
            => min_id[t] = last_processed_id

\* C9 witness: the ready event fired again while a tick was delivering, and
\* the second invocation skipped.
C9_Witness ==
    \E t, u \in Tasks :
        pc[t] = "deliver" /\ pc[u] = "skipped" /\ min_id[t] # None

\* C10 (as claimed): no error of the pipeline ends the poll loop.
C10_NoPipelineErrorStopsLoop ==
    \A t \in Tasks :
        ~(pc[t] = "crashed" /\ outcome[t] \in {"connect_fail", "disconnect_fail"})


\* Ids handed to send_telegram_embeds in a batch whose delivery is over.
DeliveredIds ==
    {i \in 1..MaxMsgs : handed[i] >= 1}
        \ UNION {IdSet(results[t]) : t \in {u \in Tasks : pc[u] \in {"deliver", "advance"}}}

\* C11: the cursor is set exactly when some batch has been delivered, and it
\* is then the highest id among the messages of the delivered batches.
C11_CursorIsMaxDelivered ==
    /\ (last_processed_id = None <=> DeliveredIds = {})
    /\ last_processed_id # None =>
        /\ last_processed_id \in DeliveredIds
        /\ \A i \in DeliveredIds : i <= last_processed_id

\* C11 witness: two batches have been delivered and a newer message without
\* URL is in the chat.
C11_Witness ==
    /\ Cardinality(DeliveredIds) > 1
    /\ Len(chat) > last_processed_id
    /\ \A t \in Tasks : pc[t] \notin {"deliver", "advance"}
    /\ \E t \in Tasks : pc[t] = "sleep" /\ min_id[t] # None /\ results[t] # <<>>

\* Position of id i in the sequence of ids s.
PosIn(s, i) == CHOOSE k \in 1..Len(s) : s[k] = i

\* C17: the batch handed to send_telegram_embeds is in non-decreasing date
\* order, messages of equal date are in fetch order, and the batch holds exactly
\* the fetched messages that have a URL.
C17_BatchSortedByDate ==
    \A t \in Tasks :
        pc[t] \in {"deliver", "advance"} =>
            /\ \A j, k \in 1..Len(results[t]) :
                j < k =>
                    /\ results[t][j].date <= results[t][k].date
                    /\ results[t][j].date = results[t][k].date
                        => PosIn(messages[t], results[t][j].id)
                            < PosIn(messages[t], results[t][k].id)
            /\ IdSet(results[t])
                = {UrlIdsFetched(t)[k] : k \in 1..Len(UrlIdsFetched(t))}
            /\ Len(results[t]) = Len(UrlIdsFetched(t))

\* C17 witness: a batch of two in which the message with the higher id has the
\* earlier date and comes first.
C17_Witness ==
    \E t \in Tasks :
        /\ pc[t] = "deliver" /\ Len(results[t]) = 2
        /\ results[t][1].id > results[t][2].id
        /\ results[t][1].date < results[t][2].date


\* ------------------------------------------------- get_context_messages alone
\* A chat as get_context_messages reads it: only the text lengths matter.
CtxMessage == {m \in RawMessage : m.urls = 0 /\ m.date = 1}
CtxChats == UNION {[1..n -> CtxMessage] : n \in 1..MaxCtxMsgs}

InitContext ==
    /\ RelayInit
    /\ call \in {[op |-> "chat", chat |-> c] : c \in CtxChats}

\* get_context_messages(chat, message_id, before, after) on a message of the chat.
CallContext ==
    /\ call.op = "chat"
    /\ \E p \in 1..Len(call.chat), nb \in 0..MaxBefore, na \in 0..MaxAfter :
         call' = [op |-> "context", chat |-> call.chat, message_id |-> p,
                  before |-> nb, after |-> na,
                  context |-> get_context_messages(call.chat, p, nb, na)]
    /\ UNCHANGED relay

SpecContext == InitContext /\ [][CallContext]_vars

SeqSet(s) == {s[k] : k \in 1..Len(s)}

\* C12: a context window never holds the pivot, its before list has at most
\* `before` entries and its after list at most `after` entries.
C12_WindowExcludesPivotAndIsBounded ==
    call.op = "context" =>
        /\ call.message_id \notin SeqSet(call.context.before)
        /\ call.message_id \notin SeqSet(call.context.after)
        /\ Len(call.context.before) <= call.before
        /\ Len(call.context.after) <= call.after

\* C12 witness: the pivot has a long text, both lists are full, and a further
\* message with a long text follows the pivot.
C12_Witness ==
    /\ call.op = "context"
    /\ call.chat[call.message_id].tlen > MinTextLen
    /\ call.before > 0 /\ Len(call.context.before) = call.before
    /\ call.after > 0 /\ Len(call.context.after) = call.after
    /\ \E i \in 1..Len(call.chat) :
        /\ i > call.message_id
        /\ call.chat[i].tlen > MinTextLen
        /\ i \notin SeqSet(call.context.after)

MaxTextLen == 6

Chars == {"w", ".", "/", " "}
Strings == UNION {[1..n -> Chars] : n \in 0..MaxTextLen}

Whitespace == {" ", "\t", "\n", "\r"}
TrailingPunct == {".", ",", "U+3001", "U+3002", ")", "U+FF3D", "U+3011", ">", "U+300D"}
HttpsPrefix == <<"h", "t", "t", "p", "s", ":", "/", "/">>
HttpPrefix == <<"h", "t", "t", "p", ":", "/", "/">>
WwwPrefix == <<"w", "w", "w", ".">>
TmePrefix == <<"t", ".", "m", "e", "/">>
TelegramMePrefix == <<"t", "e", "l", "e", "g", "r", "a", "m", ".", "m", "e", "/">>

RECURSIVE LStrip(_, _)
LStrip(s, chars) ==
    IF s # <<>> /\ Head(s) \in chars THEN LStrip(Tail(s), chars) ELSE s

RECURSIVE RStrip(_, _)
RStrip(s, chars) ==
    IF s # <<>> /\ s[Len(s)] \in chars
    THEN RStrip(SubSeq(s, 1, Len(s) - 1), chars)
    ELSE s

\* str.strip()
Strip(s) == RStrip(LStrip(s, Whitespace), Whitespace)

\* s[i:].startswith(prefix), i counted from 1
StartsWithAt(s, i, prefix) ==
    /\ i + Len(prefix) - 1 <= Len(s)
    /\ SubSeq(s, i, i + Len(prefix) - 1) = prefix

\* if url.startswith("www."): url = "https://" + url
AddScheme(url) == IF StartsWithAt(url, 1, WwwPrefix) THEN HttpsPrefix \o url ELSE url

_normalize_url(url) ==
    IF url = <<>> THEN url ELSE AddScheme(RStrip(Strip(url), TrailingPunct))

InitText == RelayInit /\ \E u \in Strings : call = [op |-> "string", s |-> u]

\* _normalize_url(u), and _normalize_url of what it returned.
NormalizeUrl ==
    /\ call.op = "string"
    /\ call' = [op |-> "normalized", url |-> call.s,
                once |-> _normalize_url(call.s),
                twice |-> _normalize_url(_normalize_url(call.s))]
    /\ UNCHANGED relay

\* C14: normalizing a normalized URL changes nothing, for every string.
C14_NormalizeIdempotent ==
    call.op = "normalized" => call.twice = call.once


\* ------------------------------------------------------------- url_pattern
Letters == {"a", "b", "c", "d", "e", "f", "g", "h", "i", "j", "k", "l", "m",
            "n", "o", "p", "q", "r", "s", "t", "u", "v", "w", "x", "y", "z"}
Digits == {"0", "1", "2", "3", "4", "5", "6", "7", "8", "9"}
Alnum == Letters \cup Digits
WordChars == Alnum \cup {"_"}
LabelChars == Alnum \cup {"-"}
PathStop == Whitespace \cup {"<", ">", "(", ")", "[", "]", "{", "}", "\"", "'",
                             "U+3001", "U+3002", "U+3011", "U+300E", "U+300D"}
Prefixes == <<HttpsPrefix, HttpPrefix, WwwPrefix, TmePrefix, TelegramMePrefix>>

Greatest(S) == CHOOSE j \in S : \A k \in S : k <= j
GreatestOrZero(S) == IF S = {} THEN 0 ELSE Greatest(S)

\* The last index of the longest run s[i..j], j <= cap, of characters of the
\* class: those in chars when inside is TRUE, those not in chars when it is
\* FALSE; i - 1 when s[i] is not of the class.
RECURSIVE RunEnd(_, _, _, _, _)
RunEnd(s, i, cap, chars, inside) ==
    IF i <= Len(s) /\ i <= cap /\ (s[i] \in chars) = inside
    THEN RunEnd(s, i + 1, cap, chars, inside)
    ELSE i - 1

\* [a-z0-9](?:[a-z0-9\-]{0,61}[a-z0-9]) at s[i]: the last index, 0 for no match.
LabelEnd(s, i) ==
    IF i > Len(s) \/ s[i] \notin Alnum THEN 0
    ELSE GreatestOrZero({k \in (i + 1)..RunEnd(s, i + 1, i + 62, LabelChars, TRUE) :
                            s[k] \in Alnum})

\* (?:\.label)* after a label that ends at e; next is where the label after
\* the dot ends, 0 when there is none.
RECURSIVE DotLabels(_, _)
DotLabelsFrom(s, e, next) == IF next # 0 THEN DotLabels(s, next) ELSE e
DotLabels(s, e) ==
    IF e + 1 <= Len(s) /\ s[e + 1] = "."
    THEN DotLabelsFrom(s, e, LabelEnd(s, e + 2))
    ELSE e

\* label(?:\.label)+ where the first label ends at first and the last at last
HostFrom(first, last) == IF first = 0 \/ last = first THEN 0 ELSE last
HostAfter(s, first) == HostFrom(first, DotLabels(s, first))
HostEnd(s, i) == HostAfter(s, LabelEnd(s, i))

\* (?:\:\d+)?
PortFrom(e, digits) == IF digits > e + 1 THEN digits ELSE e
PortEnd(s, e) ==
    IF e + 1 <= Len(s) /\ s[e + 1] = ":"
    THEN PortFrom(e, RunEnd(s, e + 2, Len(s), Digits, TRUE))
    ELSE e

\* (?:/[^\s<>()...]*)?
PathEnd(s, e) ==
    IF e + 1 <= Len(s) /\ s[e + 1] = "/"
    THEN RunEnd(s, e + 2, Len(s), PathStop, FALSE)
    ELSE e

RestFrom(s, host) == IF host = 0 THEN 0 ELSE PathEnd(s, PortEnd(s, host))
RestEnd(s, i) == RestFrom(s, HostEnd(s, i))

\* The optional prefix: each alternative in turn, then none.
PrefixChoices == Prefixes \o <<<<>>>>

RECURSIVE TryPrefixes(_, _, _)
OrNextPrefix(s, i, k, rest) == IF rest # 0 THEN rest ELSE TryPrefixes(s, i, k + 1)
TryPrefixes(s, i, k) ==
    IF k > Len(PrefixChoices) THEN 0
    ELSE OrNextPrefix(s, i, k,
                      IF StartsWithAt(s, i, PrefixChoices[k])
                      THEN RestEnd(s, i + Len(PrefixChoices[k]))
                      ELSE 0)

\* \b before s[i]
WordBoundary(s, i) ==
    (i > 1 /\ s[i - 1] \in WordChars) # (i <= Len(s) /\ s[i] \in WordChars)

\* url_pattern matched at s[i]: the last index of the match, 0 for no match.
MatchAt(s, i) == IF WordBoundary(s, i) THEN TryPrefixes(s, i, 1) ELSE 0

\* url_pattern.findall(s[i:]); end is where the match at s[i] ends, 0 for none.
RECURSIVE findall(_, _)
FindAfter(s, i, end) ==
    IF end # 0
    THEN <<SubSeq(s, i, end)>> \o findall(s, end + 1)
    ELSE findall(s, i + 1)
findall(s, i) == IF i > Len(s) THEN <<>> ELSE FindAfter(s, i, MatchAt(s, i))

URLInfo(type, raw) == [source_type |-> type, url |-> _normalize_url(raw)]

\* A candidate of this source for each raw URL.
UrlInfos(type, raws) == [k \in 1..Len(raws) |-> URLInfo(type, raws[k])]

_extract_text_urls(text) == UrlInfos("TEXT", findall(text, 1))


\* ------------------------------------------------------- extract_all_urls
\* A message as the extractors read it: its text, its entities (a
\* MessageEntityTextUrl carries a url, a MessageEntityUrl marks the fragment
\* text[offset : offset + length]), the urls of its inline buttons row by row,
\* and the url of its web page preview (empty when it has none).
TextUrlEntity(u) == [type |-> "MessageEntityTextUrl", url |-> u, offset |-> 0, length |-> 0]
UrlEntity(o, l) == [type |-> "MessageEntityUrl", url |-> <<>>, offset |-> o, length |-> l]
TextOnly(text) == [text |-> text, entities |-> <<>>, buttons |-> <<>>, webpage |-> <<>>]

\* The entity yields a candidate; the raw URL it yields.
YieldsUrl(e) == e.type = "MessageEntityUrl" \/ e.url # <<>>
EntityRaw(text, e) ==
    IF e.type = "MessageEntityTextUrl" THEN e.url
    ELSE SubSeq(text, e.offset + 1, Min(e.offset + e.length, Len(text)))
EntityRaws(text, es) == [k \in 1..Len(es) |-> EntityRaw(text, es[k])]

_extract_entity_urls(message) ==
    UrlInfos("ENTITY", EntityRaws(message.text, SelectSeq(message.entities, YieldsUrl)))

HasUrl(u) == u # <<>>

_extract_button_urls(message) == UrlInfos("BUTTON", SelectSeq(message.buttons, HasUrl))

_extract_preview_urls(message) ==
    IF message.webpage # <<>> THEN <<URLInfo("PREVIEW", message.webpage)>> ELSE <<>>

AllUrls_EntityFirst(text_urls, entity_urls, button_urls, preview_urls) ==
    entity_urls \o text_urls \o button_urls \o preview_urls

\* all_urls after its four extend calls
AllUrls(text_urls, entity_urls, button_urls, preview_urls) ==
    text_urls \o entity_urls \o button_urls \o preview_urls

SeenAdd_Never(seen, url) == seen

SeenAdd(seen, url) == seen \cup {url}

\* for url_info in all_urls: if url_info.url not in seen: ...
RECURSIVE UniqueUrls(_, _, _)
UniqueUrls(all_urls, seen, unique_urls) ==
    IF all_urls = <<>> THEN unique_urls
    ELSE IF Head(all_urls).url \notin seen
         THEN UniqueUrls(Tail(all_urls), SeenAdd(seen, Head(all_urls).url),
                         Append(unique_urls, Head(all_urls)))
         ELSE UniqueUrls(Tail(all_urls), seen, unique_urls)

extract_all_urls(message) ==
    UniqueUrls(AllUrls(_extract_text_urls(message.text),
                       _extract_entity_urls(message),
                       _extract_button_urls(message),
                       _extract_preview_urls(message)),
               {}, <<>>)

\* ------------------------------------------------------------ message body
\* str.replace(old, ''): every occurrence, left to right, without overlap.
RECURSIVE Remove(_, _)
Remove(s, old) ==
    IF old = <<>> \/ s = <<>> THEN s
    ELSE IF StartsWithAt(s, 1, old)
         THEN Remove(SubSeq(s, Len(old) + 1, Len(s)), old)
         ELSE <<Head(s)>> \o Remove(Tail(s), old)

\* for url_info in msg['urls']: text_without_urls = ....replace(url, '').strip()
RECURSIVE text_without_urls(_, _)
text_without_urls(text, urls) ==
    IF urls = <<>> THEN text
    ELSE text_without_urls(Strip(Remove(text, Head(urls).url)), Tail(urls))

Contains(s, sub) == \E i \in 1..(Len(s) + 1) : StartsWithAt(s, i, sub)

\* A message with this text is fetched: with no URL it is dropped, with one it
\* is handed on and its body is rendered.
Rendered(text, urls) ==
    IF urls = <<>>
    THEN [op |-> "dropped", text |-> text]
    ELSE [op |-> "body", text |-> text, urls |-> urls,
          body |-> text_without_urls(text, urls)]

RenderBody ==
    /\ call.op = "string"
    /\ call' = Rendered(call.s, extract_all_urls(TextOnly(call.s)))
    /\ UNCHANGED relay

SpecText == InitText /\ [][NormalizeUrl \/ RenderBody]_vars

\* C19: the body sent for a message contains none of the URLs that the text
\* scan finds in the message's text.
C19_BodyHasNoTextUrl ==
    call.op = "body" =>
        \A k \in 1..Len(findall(call.text, 1)) :
            ~Contains(call.body, findall(call.text, 1)[k])


\* -------------------------------------------------- extract_all_urls alone
MaxTextUrls == 2
MaxEntities == 1
MaxButtons == 1

\* ww.ww, the same followed by a full stop, and www.ww
RawUrls == {<<"w", "w", ".", "w", "w">>,
            <<"w", "w", ".", "w", "w", ".">>,
            <<"w", "w", "w", ".", "w", "w">>}

SeqsUpTo(S, n) == UNION {[1..k -> S] : k \in 0..n}

\* The words of a text, a space between two of them.
RECURSIVE Join(_)
Join(words) ==
    IF words = <<>> THEN <<>>
    ELSE IF Len(words) = 1 THEN words[1]
         ELSE words[1] \o <<" ">> \o Join(Tail(words))

\* The offset of word k in Join(words), counted from 0.
OffsetOf(words, k) == IF k = 1 THEN 0 ELSE Len(Join(SubSeq(words, 1, k - 1))) + 1

\* The entities a message of these words can carry: a text link to any URL
\* (or to none), or the mark of one of its words as a URL.
EntitiesOf(words) ==
    {TextUrlEntity(u) : u \in RawUrls \cup {<<>>}}
        \cup {UrlEntity(OffsetOf(words, k), Len(words[k])) : k \in 1..Len(words)}

\* A message of up to MaxTextUrls words, each a URL, with up to MaxEntities
\* entities (a text link may have no url), up to MaxButtons url buttons and a
\* preview or none.
InitExtract ==
    /\ RelayInit
    /\ \E words \in SeqsUpTo(RawUrls, MaxTextUrls) :
       \E es \in SeqsUpTo(EntitiesOf(words), MaxEntities) :
       \E bs \in SeqsUpTo(RawUrls, MaxButtons) :
       \E wp \in RawUrls \cup {<<>>} :
          call = [op |-> "message",
                  message |-> [text |-> Join(words), entities |-> es,
                               buttons |-> bs, webpage |-> wp]]

\* extract_all_urls(message), with the candidates of each source beside it.
ExtractUrls ==
    /\ call.op = "message"
    /\ call' = [op |-> "extracted", message |-> call.message,
                text_urls |-> _extract_text_urls(call.message.text),
                entity_urls |-> _extract_entity_urls(call.message),
                button_urls |-> _extract_button_urls(call.message),
                preview_urls |-> _extract_preview_urls(call.message),
                urls |-> extract_all_urls(call.message)]
    /\ UNCHANGED relay

SpecExtract == InitExtract /\ [][ExtractUrls]_vars

\* The candidates of the four sources, TEXT then ENTITY then BUTTON then PREVIEW.
Candidates == call.text_urls \o call.entity_urls \o call.button_urls \o call.preview_urls

\* The positions of Candidates whose normalized URL no earlier candidate has.
FirstOccurrences ==
    {i \in 1..Len(Candidates) : \A j \in 1..(i - 1) : Candidates[j].url # Candidates[i].url}

\* C15: the list returned by extract_all_urls has pairwise distinct normalized
\* URLs and is the list of candidates (TEXT, ENTITY, BUTTON, PREVIEW) cut down to
\* the first occurrence of each normalized URL, in the same order.
C15_UniqueByFirstOccurrence ==
    call.op = "extracted" =>
        /\ \A j, k \in 1..Len(call.urls) : j # k => call.urls[j].url # call.urls[k].url
        /\ Len(call.urls) = Cardinality(FirstOccurrences)
        /\ \A k \in 1..Len(call.urls) :
             \E i \in FirstOccurrences :
                /\ Cardinality({j \in FirstOccurrences : j <= i}) = k
                /\ call.urls[k] = Candidates[i]

\* C15 witness: a candidate is dropped as a duplicate although a candidate
\* before it and a candidate after it are both kept.
C15_Witness ==
    /\ call.op = "extracted"
    /\ Len(call.urls) >= 2
    /\ \E i, j, k \in 1..Len(Candidates) :
        /\ i < j /\ j < k
        /\ i \in FirstOccurrences /\ k \in FirstOccurrences
        /\ j \notin FirstOccurrences

SourcesOf(url) ==
    <<{c.url : c \in SeqSet(call.text_urls)}, {c.url : c \in SeqSet(call.entity_urls)},
      {c.url : c \in SeqSet(call.button_urls)}, {c.url : c \in SeqSet(call.preview_urls)}>>

\* C16: a retained URL carries the source type of the first source, in the
\* order TEXT, ENTITY, BUTTON, PREVIEW, that produced it.
C16_FirstSourceWins ==
    call.op = "extracted" =>
        \A k \in 1..Len(call.urls) :
            LET u == call.urls[k].url
            IN  call.urls[k].source_type =
                    IF u \in SourcesOf(u)[1] THEN "TEXT"
                    ELSE IF u \in SourcesOf(u)[2] THEN "ENTITY"
                    ELSE IF u \in SourcesOf(u)[3] THEN "BUTTON"
                    ELSE "PREVIEW"

\* C16 witness: one URL is found by the text scan and by an entity and kept as
\* TEXT, another is found on a button and in the preview and kept as BUTTON.
C16_Witness ==
    /\ call.op = "extracted"
    /\ \E k \in 1..Len(call.urls) :
        /\ call.urls[k].source_type = "TEXT"
        /\ call.urls[k].url \in SourcesOf(call.urls[k].url)[2]
    /\ \E k \in 1..Len(call.urls) :
        /\ call.urls[k].source_type = "BUTTON"
        /\ call.urls[k].url \in SourcesOf(call.urls[k].url)[4]


\* --------------------------------------------------- send_telegram_embeds alone
\* The numbers of URLs of a message of a batch.
BatchUrlCounts == {1, 2}

\* Message k of a batch: its id is 2 * k, its context is the message before it,
\* the message after it, both or none.
BatchMessage(k, urls, hasBefore, hasAfter) ==
    [id |-> 2 * k, date |-> 1, urls |-> urls,
     context_before |-> IF hasBefore THEN <<(2 * k) - 1>> ELSE <<>>,
     context_after |-> IF hasAfter THEN <<(2 * k) + 1>> ELSE <<>>]

\* The first on_ready calls send_telegram_embeds(results) with a batch of up to
\* `limit` messages.
InitDeliver ==
    /\ \E n \in 1..limit :
       \E urls \in [1..n -> BatchUrlCounts] :
       \E hasBefore \in [1..n -> BOOLEAN], hasAfter \in [1..n -> BOOLEAN] :
          results = [t \in Tasks |->
                        IF t = 1
                        THEN [k \in 1..n |-> BatchMessage(k, urls[k], hasBefore[k], hasAfter[k])]
                        ELSE <<>>]
    /\ pc = [t \in Tasks |-> IF t = 1 THEN "deliver" ELSE "idle"]
    /\ outcome = [t \in Tasks |-> IF t = 1 THEN "ok" ELSE "none"]
    /\ is_first_run = FALSE
    /\ readyCount = 1
    /\ chat = <<>>
    /\ last_processed_id = None
    /\ min_id = [t \in Tasks |-> None]
    /\ messages = [t \in Tasks |-> <<>>]
    /\ idx = [t \in Tasks |-> 1]
    /\ failed = [t \in Tasks |-> 0]
    /\ connected = [t \in Tasks |-> FALSE]
    /\ sink = <<>>
    /\ handed = [i \in 1..MaxMsgs |-> 0]
    /\ undelivered = {}
    /\ attempted = {}
    /\ call = NoCall

SpecDeliver == InitDeliver /\ [][\E t \in Tasks : Deliver(t)]_vars

\* The positions of the sink that hold a unit of the message with this id.
SinkPositions(id) == {p \in 1..Len(sink) : sink[p][1] = id}

\* The place of a kind of unit in the order the claim gives.
Rank(kind) ==
    CASE kind = "divider" -> 1
      [] kind = "before" -> 2
      [] kind = "body" -> 3
      [] kind = "url" -> 4
      [] kind = "after" -> 5
      [] kind = "divider_end" -> 6

\* C18: for a message delivered without a failure the sink has, in this order,
\* the opening divider, the before block if the message has context before,
\* the body, each URL in the order of the message's list, the after block if
\* the message has context after, and the closing divider, each once; and the
\* units of a message of the batch all come before those of a later message.
C18_UnitsInOrder ==
    \A t \in Tasks :
        \A j \in 1..Len(results[t]) :
            LET msg == results[t][j]
                P   == SinkPositions(msg.id)
            IN  /\ \A p, q \in P : \A r \in p..q : r \in P
                /\ \A k \in 1..Len(results[t]) :
                     j < k => \A p \in P, q \in SinkPositions(results[t][k].id) : p < q
                /\ msg.id \in attempted \ undelivered =>
                     /\ {<<sink[p][2], sink[p][3]>> : p \in P}
                          = {<<"divider", 0>>, <<"body", 0>>, <<"divider_end", 0>>}
                              \cup {<<"url", u>> : u \in 1..msg.urls}
                              \cup (IF msg.context_before # <<>> THEN {<<"before", 0>>} ELSE {})
                              \cup (IF msg.context_after # <<>> THEN {<<"after", 0>>} ELSE {})
                     /\ \A p, q \in P :
                          p < q =>
                            \/ Rank(sink[p][2]) < Rank(sink[q][2])
                            \/ /\ Rank(sink[p][2]) = Rank(sink[q][2])
                               /\ sink[p][3] < sink[q][3]

\* C18 witness: a batch of two messages is delivered whole; the first has two
\* URLs and context on both sides, the second has no context.
C18_Witness ==
    /\ pc[1] = "advance"
    /\ Len(results[1]) = 2
    /\ undelivered = {}
    /\ results[1][1].urls = 2
    /\ results[1][1].context_before # <<>> /\ results[1][1].context_after # <<>>
    /\ results[1][2].context_before = <<>> /\ results[1][2].context_after = <<>>
    /\ Len(sink) > 9


\* ------------------------------------------------- claims about the ticks
\* C22: every message of a batch handed to send_telegram_embeds has an id
\* greater than the id of every message handed to it in an earlier tick, and
\* was itself not handed to it in an earlier tick.
C22_BatchesAscendAcrossTicks ==
    \A t \in Tasks :
        pc[t] \in {"deliver", "advance"} =>
            \A k \in 1..Len(results[t]) :
                /\ handed[results[t][k].id] = 1
                /\ \A i \in DOMAIN handed :
                     (handed[i] >= 1 /\ i \notin IdSet(results[t]))
                         => results[t][k].id > i

\* C22 witness: a batch is being delivered after an earlier tick handed on
\* another one, and the chat holds a message without URL between the two.
C22_Witness ==
    \E t \in Tasks :
        /\ pc[t] = "deliver"
        /\ min_id[t] # None
        /\ \E i \in DOMAIN handed : handed[i] >= 1 /\ i \notin IdSet(results[t])
        /\ \E j \in 1..Len(chat) :
            /\ chat[j].urls = 0
            /\ j > last_processed_id
            /\ j < results[t][1].id


\* C23: when get_tg_results has returned, normally or after an error of the
\* fetch, the sender lookup or the context fetch, the client it connected is
\* disconnected; and no tick begins while a client of any tick is connected.
C23_ClientDisconnectedAfterTick ==
    \A t \in Tasks :
        /\ pc[t] \in {"deliver", "advance", "sleep"} => ~connected[t]
        /\ pc[t] = "connect" => \A u \in Tasks : ~connected[u]

\* C23 witness: a tick that handed on a batch was followed by a tick whose
\* sender lookup or context fetch raised, and that tick is over.
C23_Witness ==
    \E t \in Tasks :
        /\ pc[t] = "sleep"
        /\ outcome[t] \in {"sender_fail", "ctx_fail"}
        /\ last_processed_id # None
        /\ ~connected[t]


\* ------------------------------------------------ the poll loop on a backlog
\* Largest chat the poll loop wakes up to.
MaxBacklog == 4

\* Messages of one date, with or without a URL.
BacklogMessage == {m \in Posted : m.date = 1}

\* The poll loop is asleep with the cursor on a message c that has a URL;
\* every message with a URL up to c has been handed on, the previous tick found
\* nothing new, and more messages were posted while the loop slept.
InitBacklog ==
    /\ \E n \in 1..MaxBacklog :
       \E ch \in [1..n -> BacklogMessage] :
       \E c \in 1..n :
          /\ ch[c].urls > 0
          /\ chat = ch
          /\ last_processed_id = c
          /\ min_id = [t \in Tasks |-> IF t = 1 THEN c ELSE None]
          /\ handed = [i \in 1..MaxBacklog |->
                          IF i <= c /\ ch[i].urls > 0 THEN 1 ELSE 0]
    /\ pc = [t \in Tasks |-> IF t = 1 THEN "sleep" ELSE "idle"]
    /\ outcome = [t \in Tasks |-> IF t = 1 THEN "ok" ELSE "none"]
    /\ is_first_run = FALSE
    /\ readyCount = 1
    /\ messages = [t \in Tasks |-> <<>>]
    /\ results = [t \in Tasks |-> <<>>]
    /\ idx = [t \in Tasks |-> 1]
    /\ failed = [t \in Tasks |-> 0]
    /\ connected = [t \in Tasks |-> FALSE]
    /\ sink = <<>>
    /\ undelivered = {}
    /\ attempted = {}
    /\ call = NoCall

\* The ticks of the poll loop; nothing is posted meanwhile.
NextBacklog ==
    \/ \E t \in Tasks : StartTick(t)
    \/ \E t \in Tasks : Connect(t)
    \/ \E t \in Tasks : Fetch(t)
    \/ \E t \in Tasks : Enrich(t)
    \/ \E t \in Tasks : Disconnect(t)
    \/ \E t \in Tasks : Deliver(t)
    \/ \E t \in Tasks : AdvanceCursor(t)

SpecBacklog == InitBacklog /\ [][NextBacklog]_vars

\* C21: no message with a URL is skipped.  A tick lists only ids above the
\* cursor and the cursor never decreases, so a message the cursor has passed
\* can be handed on in no later tick: every message with a URL whose id is at
\* most the cursor has been handed to send_telegram_embeds.
C21_NoUrlMessageBehindCursor ==
    \A i \in 1..Len(chat) :
        (chat[i].urls > 0 /\ last_processed_id # None /\ i <= last_processed_id)
            => handed[i] >= 1

=============================================================================
